---- MODULE Spec2Model ----
(***************************************************************************)
(* dtcalc: a date-and-duration calculator (src/src/dtcalc.py).             *)
(*                                                                         *)
(* A string is modelled as the sequence of its lexical runs ("chunks"): a  *)
(* maximal run of digits, a maximal run of letters, a maximal run of       *)
(* whitespace, or one punctuation character.  The three regular            *)
(* expressions of the program (the tokenizer's \s+([+-]), the duration     *)
(* parser's (\d+)\s*([a-zA-Z]+) and strptime's directives) never look      *)
(* inside a run, so the chunk sequence decides what they match.            *)
(***************************************************************************)
EXTENDS Integers, Sequences, FiniteSets, TLC

(***************************************************************************)
(* Bounds of the model.                                                    *)
(***************************************************************************)
MaxItems == 5       \* longest expression, in operands and operator pieces
MaxValue == 2       \* largest integer written in a duration token
MaxTicks == 1       \* seconds the wall clock may advance during one run
MaxDays == 2        \* durations handed to the formatter: -MaxDays..MaxDays days

(***************************************************************************)
(* Strings as chunk sequences.                                             *)
(***************************************************************************)
Dg(v, n) == [k |-> "D", v |-> v, n |-> n, w |-> ""]    \* n digits, value v
Lt(w) == [k |-> "L", v |-> 0, n |-> 0, w |-> w]        \* the letters w
Sp == [k |-> "S", v |-> 0, n |-> 0, w |-> " "]         \* whitespace
Pn(c) == [k |-> "P", v |-> 0, n |-> 0, w |-> c]        \* the character c

\* number of decimal digits of v when written without padding
Digits(v) == IF v < 10 THEN 1 ELSE IF v < 100 THEN 2 ELSE IF v < 1000 THEN 3 ELSE 4
Num(v) == Dg(v, Digits(v))           \* f"{v}"
Num2(v) == Dg(v, 2)                  \* zero-padded to two digits, v < 100
Num4(v) == Dg(v, 4)                  \* zero-padded to four digits

\* str.lower() on the words that occur in the model
Lower(w) ==
  CASE w = "D" -> "d" [] w = "W" -> "w" [] w = "Hours" -> "hours"
    [] w = "MIN" -> "min" [] w = "Sec" -> "sec"
    [] w = "AM" -> "am" [] w = "PM" -> "pm"
    [] w = "Today" -> "today" [] w = "NOW" -> "now"
    [] w = "January" -> "january" [] w = "Jan" -> "jan"
    [] w = "December" -> "december" [] w = "Dec" -> "dec"
    [] w = "March" -> "march" [] w = "Mar" -> "mar"
    [] OTHER -> w

LowerStr(s) == [j \in 1..Len(s) |-> IF s[j].k = "L" THEN Lt(Lower(s[j].w)) ELSE s[j]]

\* str.strip(): drop leading and trailing whitespace
RECURSIVE LStrip(_)
LStrip(s) == IF s # <<>> /\ Head(s).k = "S" THEN LStrip(Tail(s)) ELSE s
RECURSIVE RStrip(_)
RStrip(s) ==
  IF s # <<>> /\ s[Len(s)].k = "S" THEN RStrip(SubSeq(s, 1, Len(s) - 1)) ELSE s
Strip(s) == RStrip(LStrip(s))

(***************************************************************************)
(* Python values.                                                          *)
(***************************************************************************)
None == [t |-> "None"]
Raise(kind) == [t |-> "raise", kind |-> kind]
IsNone(x) == x.t = "None"
IsRaise(x) == x.t = "raise"
IsTimedelta(x) == x.t = "timedelta"
IsDatetime(x) == x.t = "datetime"

DaySeconds == 86400

\* timedelta(days=, hours=, minutes=, seconds=): normalised to days and
\* 0 <= seconds < 86400, the days negative for a negative duration
Timedelta(days, hours, minutes, seconds) ==
  LET total == days * DaySeconds + hours * 3600 + minutes * 60 + seconds
  IN [t |-> "timedelta", days |-> total \div DaySeconds, seconds |-> total % DaySeconds]

\* timedelta.total_seconds()
TotalSeconds(td) == td.days * DaySeconds + td.seconds

\* a datetime: the day's ordinal and the second of the day
Datetime(ord, sec) ==
  [t |-> "datetime", ord |-> ord + (sec \div DaySeconds), sec |-> sec % DaySeconds]

\* Python truth value: None is false, a timedelta is false when it is zero,
\* a datetime and a non-empty string are true
Truthy(x) ==
  CASE x.t = "None" -> FALSE
    [] x.t = "timedelta" -> (x.days # 0 \/ x.seconds # 0)
    [] OTHER -> TRUE

\* the + and - of the two types
Add(a, b) ==
  CASE IsTimedelta(a) /\ IsTimedelta(b) ->
         Timedelta(a.days + b.days, 0, 0, a.seconds + b.seconds)
    [] IsDatetime(a) /\ IsTimedelta(b) -> Datetime(a.ord + b.days, a.sec + b.seconds)
    [] IsTimedelta(a) /\ IsDatetime(b) -> Datetime(b.ord + a.days, b.sec + a.seconds)
Sub(a, b) ==
  CASE IsTimedelta(a) /\ IsTimedelta(b) ->
         Timedelta(a.days - b.days, 0, 0, a.seconds - b.seconds)
    [] IsDatetime(a) /\ IsTimedelta(b) -> Datetime(a.ord - b.days, a.sec - b.seconds)
    [] IsDatetime(a) /\ IsDatetime(b) ->
         Timedelta(a.ord - b.ord, 0, 0, a.sec - b.sec)

(***************************************************************************)
(* Duration parsing.                                                       *)
(***************************************************************************)
unit_map ==
  [w |-> "days", week |-> "days", weeks |-> "days",
   d |-> "days", day |-> "days", days |-> "days",
   h |-> "hours", hr |-> "hours", hour |-> "hours", hours |-> "hours",
   m |-> "minutes", min |-> "minutes", minute |-> "minutes", minutes |-> "minutes",
   s |-> "seconds", sec |-> "seconds", second |-> "seconds", seconds |-> "seconds"]

\* StartsWithW without the lower()
StartsWithWCaseSensitive(u) == u \in {"w", "week", "weeks"}

\* unit.lower().startswith("w"), over the words of the model
StartsWithW(u) == Lower(u) \in {"w", "week", "weeks"}

\* re.findall(r"(\d+)\s*([a-zA-Z]+)", s): the (value, unit) pairs, left to right
RECURSIVE FindAll(_)
FindAll(s) ==
  IF s = <<>> THEN <<>>
  ELSE IF Len(s) >= 2 /\ s[1].k = "D" /\ s[2].k = "L"
    THEN <<[value |-> s[1].v, unit |-> s[2].w]>> \o FindAll(SubSeq(s, 3, Len(s)))
  ELSE IF Len(s) >= 3 /\ s[1].k = "D" /\ s[2].k = "S" /\ s[3].k = "L"
    THEN <<[value |-> s[1].v, unit |-> s[3].w]>> \o FindAll(SubSeq(s, 4, Len(s)))
  ELSE FindAll(Tail(s))

\* the loop over the matches: the keyword arguments so far, or the raise
RECURSIVE SumPairs(_, _)
SumPairs(matches, kwargs) ==
  IF matches = <<>> THEN kwargs
  ELSE LET unit == Head(matches).unit
           key == Lower(unit)
       IN IF key \notin DOMAIN unit_map THEN Raise("UnsupportedUnit")
          ELSE LET unit_key == unit_map[key]
                   val == IF unit_key = "days" /\ StartsWithW(unit)
                            THEN Head(matches).value * 7 ELSE Head(matches).value
               IN SumPairs(Tail(matches), [kwargs EXCEPT ![unit_key] = @ + val])

parse_duration(s) ==
  LET matches == FindAll(s)
  IN IF matches = <<>> THEN None
     ELSE LET kwargs == SumPairs(matches, [days |-> 0, hours |-> 0, minutes |-> 0, seconds |-> 0])
          IN IF "kind" \in DOMAIN kwargs THEN kwargs
             ELSE Timedelta(kwargs.days, kwargs.hours, kwargs.minutes, kwargs.seconds)

(***************************************************************************)
(* Datetime parsing.                                                       *)
(***************************************************************************)
date_formats ==
  << <<"%Y", "-", "%m", "-", "%d">>,
     <<"%B", "/", "%d", "/", "%Y">>,
     <<"%B", "/", "%d", "/", "%y">>,
     <<"%b", "/", "%d", "/", "%Y">>,
     <<"%b", "/", "%d", "/", "%y">>,
     <<"%m", "/", "%d", "/", "%y">>,
     <<"%m", "/", "%d", "/", "%Y">> >>
time_formats ==
  << <<>>,
     <<"%H", ":", "%M">>,
     <<"%H", ":", "%M", ":", "%S">>,
     <<"%I", ":", "%M", " ", "%p">>,
     <<"%I", ":", "%M", ":", "%S", " ", "%p">> >>

\* f"{dfmt} {tfmt}".strip(): the trailing blank goes when the time part is empty
Fmt(dfmt, tfmt) == IF tfmt = <<>> THEN dfmt ELSE dfmt \o <<" ">> \o tfmt

MonthFull ==
  <<"january", "february", "march", "april", "may", "june", "july", "august",
    "september", "october", "november", "december">>
MonthAbbr ==
  <<"jan", "feb", "mar", "apr", "may", "jun", "jul", "aug", "sep", "oct", "nov", "dec">>
IndexOf(names, w) == CHOOSE j \in 1..Len(names) : names[j] = w

IsLeap(y) == y % 4 = 0 /\ (y % 100 # 0 \/ y % 400 = 0)
DaysInMonth(y, m) ==
  IF m = 2 THEN (IF IsLeap(y) THEN 29 ELSE 28)
  ELSE IF m \in {4, 6, 9, 11} THEN 30 ELSE 31
DaysBeforeMonth(y, m) ==
  <<0, 31, 59, 90, 120, 151, 181, 212, 243, 273, 304, 334>>[m]
    + (IF m > 2 /\ IsLeap(y) THEN 1 ELSE 0)
DaysBeforeYear(y) ==
  LET p == y - 1 IN p * 365 + (p \div 4) - (p \div 100) + (p \div 400)
\* date.toordinal(): 0001-01-01 is day 1
Ymd2Ord(y, m, d) == DaysBeforeYear(y) + DaysBeforeMonth(y, m) + d

NoFields == [Y |-> 1900, m |-> 1, d |-> 1, H |-> 0, M |-> 0, S |-> 0, I |-> 0, p |-> "", ok |-> TRUE]
Bad == [NoFields EXCEPT !.ok = FALSE]

\* one directive (or literal) of a format against one chunk of the string
Directive(f, dir, c) ==
  LET num(lo, hi) == c.k = "D" /\ c.n <= 2 /\ c.v >= lo /\ c.v <= hi
  IN CASE dir = "%Y" -> IF c.k = "D" /\ c.n = 4 THEN [f EXCEPT !.Y = c.v] ELSE Bad
       [] dir = "%y" -> IF c.k = "D" /\ c.n = 2
                          THEN [f EXCEPT !.Y = IF c.v <= 68 THEN 2000 + c.v ELSE 1900 + c.v]
                          ELSE Bad
       [] dir = "%m" -> IF num(1, 12) THEN [f EXCEPT !.m = c.v] ELSE Bad
       [] dir = "%d" -> IF num(1, 31) THEN [f EXCEPT !.d = c.v] ELSE Bad
       [] dir = "%H" -> IF num(0, 23) THEN [f EXCEPT !.H = c.v] ELSE Bad
       [] dir = "%M" -> IF num(0, 59) THEN [f EXCEPT !.M = c.v] ELSE Bad
       [] dir = "%S" -> IF num(0, 59) THEN [f EXCEPT !.S = c.v] ELSE Bad
       [] dir = "%I" -> IF num(1, 12) THEN [f EXCEPT !.I = c.v] ELSE Bad
       [] dir = "%p" -> IF c.k = "L" /\ Lower(c.w) \in {"am", "pm"}
                          THEN [f EXCEPT !.p = Lower(c.w)] ELSE Bad
       [] dir = "%B" -> IF c.k = "L" /\ \E j \in 1..12 : MonthFull[j] = Lower(c.w)
                          THEN [f EXCEPT !.m = IndexOf(MonthFull, Lower(c.w))] ELSE Bad
       [] dir = "%b" -> IF c.k = "L" /\ \E j \in 1..12 : MonthAbbr[j] = Lower(c.w)
                          THEN [f EXCEPT !.m = IndexOf(MonthAbbr, Lower(c.w))] ELSE Bad
       [] dir = " " -> IF c.k = "S" THEN f ELSE Bad
       [] OTHER -> IF c.k = "P" /\ c.w = dir THEN f ELSE Bad

RECURSIVE MatchFmt(_, _, _)
MatchFmt(s, fmt, f) ==
  IF ~f.ok THEN f
  ELSE IF fmt = <<>> THEN (IF s = <<>> THEN f ELSE Bad)
  ELSE IF s = <<>> THEN Bad
  ELSE MatchFmt(Tail(s), Tail(fmt), Directive(f, Head(fmt), Head(s)))

\* datetime.strptime(s, fmt): the datetime, or None for its ValueError
Strptime(s, fmt) ==
  LET f == MatchFmt(s, fmt, NoFields)
  IN IF ~f.ok \/ f.d > DaysInMonth(f.Y, f.m) THEN None
     ELSE LET hour == IF f.p = "" THEN f.H
                      ELSE (f.I % 12) + (IF f.p = "pm" THEN 12 ELSE 0)
          IN Datetime(Ymd2Ord(f.Y, f.m, f.d), hour * 3600 + f.M * 60 + f.S)

\* the two nested loops, date format major: the first format that parses
RECURSIVE TryFormats(_, _, _)
TryFormats(s, di, ti) ==
  IF di > Len(date_formats) THEN None
  ELSE IF ti > Len(time_formats) THEN TryFormats(s, di + 1, 1)
  ELSE LET r == Strptime(s, Fmt(date_formats[di], time_formats[ti]))
       IN IF IsNone(r) THEN TryFormats(s, di, ti + 1) ELSE r

\* clk is what the wall clock reads during the call
parse_datetime_safe(s, clk) ==
  IF LowerStr(s) = <<Lt("today")>> THEN Datetime(clk.ord, 0)
  ELSE IF LowerStr(s) = <<Lt("now")>> THEN clk
  ELSE TryFormats(s, 1, 1)

(***************************************************************************)
(* Formatting.                                                             *)
(***************************************************************************)
Abs(x) == IF x < 0 THEN -x ELSE x

\* f"{abs(n)} day{'s' if abs(n) != 1 else ''}"
Part(n, unit) == [n |-> Abs(n), unit |-> IF Abs(n) # 1 THEN unit \o "s" ELSE unit]

\* the rendered string: its sign and its comma-joined parts
format_timedelta(td) ==
  LET days == td.days
      total_seconds == TotalSeconds(td)
      hours == (total_seconds % (24 * 3600)) \div 3600
      remainder == (total_seconds % (24 * 3600)) % 3600
      minutes == remainder \div 60
      seconds == remainder % 60
      parts == (IF days # 0 THEN <<Part(days, "day")>> ELSE <<>>)
               \o (IF hours # 0 THEN <<Part(hours, "hour")>> ELSE <<>>)
               \o (IF minutes # 0 THEN <<Part(minutes, "minute")>> ELSE <<>>)
               \o (IF seconds # 0 THEN <<Part(seconds, "second")>> ELSE <<>>)
      sign == IF total_seconds < 0 THEN "-" ELSE ""
  IN IF parts # <<>> THEN [sign |-> sign, parts |-> parts]
     ELSE [sign |-> "", parts |-> <<[n |-> 0, unit |-> "seconds"]>>]

\* date only at midnight, date and time otherwise
format_datetime(dt) ==
  IF dt.sec = 0 THEN [style |-> "%Y-%m-%d", ord |-> dt.ord, sec |-> 0]
  ELSE [style |-> "%Y-%m-%d %H:%M:%S", ord |-> dt.ord, sec |-> dt.sec]

(***************************************************************************)
(* The tokenizer of evaluate_expression.                                   *)
(***************************************************************************)
IsSign(c) == c.k = "P" /\ c.w \in {"+", "-"}

\* re.split(r"\s+([+-])", expr): the pieces between the separators and the
\* captured signs, in order; cur is the piece being read
RECURSIVE Split(_, _)
Split(s, cur) ==
  IF s = <<>> THEN <<cur>>
  ELSE IF Len(s) >= 2 /\ s[1].k = "S" /\ IsSign(s[2])
    THEN <<cur, <<s[2]>> >> \o Split(SubSeq(s, 3, Len(s)), <<>>)
  ELSE Split(Tail(s), Append(cur, Head(s)))

\* [s.strip() for s in ... if s.strip()]
RECURSIVE StripAll(_)
StripAll(ps) ==
  IF ps = <<>> THEN <<>>
  ELSE IF Strip(Head(ps)) = <<>> THEN StripAll(Tail(ps))
  ELSE <<Strip(Head(ps))>> \o StripAll(Tail(ps))

Tokenize(e) == StripAll(Split(e, <<>>))

\* token in ("+", "-")
IsOperator(tok) == tok \in {<<Pn("+")>>, <<Pn("-")>>}

(***************************************************************************)
(* The strings the model feeds to the program.                             *)
(***************************************************************************)
\* joining two pieces of text: two blanks make one run, and a blank keeps
\* two runs of letters or of digits apart
Join(a, b) ==
  IF a = <<>> THEN b
  ELSE IF b = <<>> THEN a
  ELSE IF a[Len(a)].k = "S" /\ b[1].k = "S" THEN a \o Tail(b)
  ELSE IF a[Len(a)].k = b[1].k /\ b[1].k \in {"D", "L"} THEN a \o <<Sp>> \o b
  ELSE a \o b

RECURSIVE JoinAll(_)
JoinAll(items) == IF items = <<>> THEN <<>> ELSE Join(Head(items), JoinAll(Tail(items)))

\* a date and time written in one of the 35 formats
MonthCap == [january |-> "January", march |-> "March", december |-> "December",
             jan |-> "Jan", mar |-> "Mar", dec |-> "Dec"]
RenderDirective(dir, f) ==
  CASE dir = "%Y" -> Num4(f.Y)
    [] dir = "%y" -> Num2(f.Y % 100)
    [] dir = "%m" -> Num2(f.m)
    [] dir = "%d" -> Num2(f.d)
    [] dir = "%H" -> Num2(f.H)
    [] dir = "%M" -> Num2(f.M)
    [] dir = "%S" -> Num2(f.S)
    [] dir = "%I" -> Num2(((f.H + 11) % 12) + 1)
    [] dir = "%p" -> Lt(IF f.H < 12 THEN "AM" ELSE "PM")
    [] dir = "%B" -> Lt(MonthCap[MonthFull[f.m]])
    [] dir = "%b" -> Lt(MonthCap[MonthAbbr[f.m]])
    [] dir = " " -> Sp
    [] OTHER -> Pn(dir)
Render(di, ti, f) ==
  LET fmt == Fmt(date_formats[di], time_formats[ti])
  IN [j \in 1..Len(fmt) |-> RenderDirective(fmt[j], f)]


SampleDates ==
  { [Y |-> 2024, m |-> 1, d |-> 1, H |-> 10, M |-> 30, S |-> 15],
    [Y |-> 2023, m |-> 12, d |-> 31, H |-> 23, M |-> 59, S |-> 59] }
DateStrings == { Render(di, ti, f) : di \in 1..7, ti \in 1..5, f \in SampleDates }

\* "{n}{U}" and "{n} {U}"
Pair(n, u) == <<Num(n), Lt(u)>>
SpacedPair(n, u) == <<Num(n), Sp, Lt(u)>>
Aliases == DOMAIN unit_map
MixedCase == {"D", "W", "Hours", "MIN", "Sec"}
OnePairStrings ==
  { Pair(n, u) : n \in 0..MaxValue, u \in Aliases \cup MixedCase }
    \cup { SpacedPair(n, u) : n \in 0..MaxValue, u \in {"days", "h"} }
TwoPairStrings ==
  { Join(Pair(n1, u1), Pair(n2, u2)) :
      n1 \in 0..MaxValue, n2 \in 0..MaxValue, u1 \in {"w", "h", "d"}, u2 \in {"d", "m", "day"} }
    \cup { Join(SpacedPair(0, "h"), SpacedPair(0, "m")) }
OtherStrings ==
  { <<Lt("foo")>>, Pair(5, "xyz"), <<Num(1)>>, <<Lt("Today")>>, <<Lt("NOW")>>,
    <<Num4(2024), Pn("-"), Num2(13), Pn("-"), Num2(1)>>,
    <<Num4(2023), Pn("-"), Num2(2), Pn("-"), Num2(29)>> }

\* the expressions: every chain of at most MaxItems pieces over a few operands
\* and the two operators, and every operand string alone or after one operand
Plus == <<Sp, Pn("+"), Sp>>
Minus == <<Sp, Pn("-"), Sp>>
ChainItems ==
  { Plus, Minus, Pair(1, "d"), Pair(0, "d"), Render(1, 1, CHOOSE f \in SampleDates : f.Y = 2024),
    <<Lt("today")>> }
RECURSIVE Chains(_)
Chains(n) ==
  IF n = 0 THEN {<<>>}
  ELSE LET shorter == Chains(n - 1)
       IN shorter \cup { Join(c, x) : c \in shorter, x \in ChainItems }
ProbeStrings ==
  DateStrings \cup OtherStrings \cup { <<Lt("now")>> }
    \cup { Pair(n, u) : n \in 0..MaxValue, u \in {"d", "W", "Hours", "min", "s"} }
    \cup { SpacedPair(n, "days") : n \in 0..MaxValue }
    \cup { Join(SpacedPair(0, "h"), SpacedPair(0, "m")), Join(Pair(1, "w"), Pair(2, "d")) }
Probes ==
  ProbeStrings
    \cup { JoinAll(<<a, o, x>>) : a \in {Pair(1, "d"), Render(1, 1, CHOOSE f \in SampleDates : f.Y = 2024)},
                                  o \in {Plus, Minus}, x \in ProbeStrings }
Exprs == Chains(MaxItems) \cup Probes

\* the wall clock when the program starts: one second before midnight
Clock0 == Datetime(Ymd2Ord(2024, 1, 1), DaySeconds - 1)

(***************************************************************************)
(* The state of one run.                                                   *)
(***************************************************************************)
VARIABLES
  expr,      \* the expression handed to evaluate_expression
  tokens,    \* its tokens
  i,         \* the position of the for loop in tokens
  token,     \* the loop variable
  dur,       \* what parse_duration returned for token
  dt,        \* what parse_datetime_safe returned for token
  result,    \* the accumulator
  op,        \* the pending operator
  raised,    \* the ValueError that ended the run, "" for none
  pc,        \* where the run is
  out,       \* what process_expression returned
  clock,     \* the wall clock at its last reading
  ticks,     \* seconds the wall clock has advanced
  arg,       \* the argument of a function called on its own
  ret        \* and what it returned

vars == <<expr, tokens, i, token, dur, dt, result, op, raised, pc, out, clock, ticks, arg, ret>>

Str(w) == [t |-> "str", w |-> w]

Idle ==
  /\ tokens = <<>> /\ i = 0 /\ token = <<>> /\ dur = None /\ dt = None
  /\ result = None /\ op = None /\ raised = "" /\ out = None
  /\ clock = Clock0 /\ ticks = 0

Init ==
  /\ expr \in Exprs
  /\ pc = "tokenize"
  /\ arg = None /\ ret = None
  /\ Idle

\* check_condition fails: the ValueError leaves evaluate_expression
Fail(kind) == raised' = kind /\ pc' = "raised"

\* line 120
SplitTokens ==
  /\ pc = "tokenize"
  /\ tokens' = Tokenize(expr)
  /\ i' = 1
  /\ pc' = "loop"
  /\ UNCHANGED <<expr, token, dur, dt, result, op, raised, out, clock, ticks, arg, ret>>

\* lines 126-130: the token is an operator
OperatorToken ==
  /\ pc = "loop" /\ i <= Len(tokens) /\ IsOperator(tokens[i])
  /\ token' = tokens[i]
  /\ IF ~IsNone(op)
       THEN Fail("ConsecutiveOperators") /\ UNCHANGED <<op, i>>
       ELSE op' = Str(tokens[i][1].w) /\ i' = i + 1 /\ UNCHANGED <<raised, pc>>
  /\ UNCHANGED <<expr, tokens, dur, dt, result, out, clock, ticks, arg, ret>>

\* line 138
ApplyDuration(res, o, d) == IF o = Str("+") THEN Add(res, d) ELSE Sub(res, d)

\* lines 132-140: parse_duration raised, or returned a value that is true
DurationOperand ==
  /\ pc = "loop" /\ i <= Len(tokens) /\ ~IsOperator(tokens[i])
  /\ LET d == parse_duration(tokens[i])
     IN /\ IsRaise(d) \/ Truthy(d)
        /\ token' = tokens[i]
        /\ IF IsRaise(d)
             THEN Fail(d.kind) /\ UNCHANGED <<dur, result, op, i>>
             ELSE /\ dur' = d
                  /\ IF IsNone(result)
                       THEN result' = d /\ i' = i + 1 /\ UNCHANGED <<op, raised, pc>>
                       ELSE IF ~Truthy(op)
                         THEN Fail("MissingOperator") /\ UNCHANGED <<result, op, i>>
                         ELSE /\ result' = ApplyDuration(result, op, d)
                              /\ op' = None
                              /\ i' = i + 1
                              /\ UNCHANGED <<raised, pc>>
  /\ UNCHANGED <<expr, tokens, dt, out, clock, ticks, arg, ret>>

\* the wall clock is read by the two keywords only
ReadsClock(tok) == LowerStr(tok) \in {<<Lt("today")>>, <<Lt("now")>>}

\* ApplyDatetime with the date never added to a Duration accumulator
ApplyDatetimeDropsDate(res, o, d) ==
  IF IsDatetime(res)
    THEN IF o # Str("-") THEN Raise("CannotAddTwoDates") ELSE Sub(res, d)
  ELSE IF IsTimedelta(res)
    THEN IF o # Str("+") THEN Raise("CannotSubtractDateFromDuration") ELSE res
  ELSE res

\* ApplyDatetime with the two operator checks exchanged
ApplyDatetimeChecksSwapped(res, o, d) ==
  IF IsDatetime(res)
    THEN IF o # Str("+") THEN Raise("CannotAddTwoDates") ELSE Sub(res, d)
  ELSE IF IsTimedelta(res)
    THEN IF o # Str("-") THEN Raise("CannotSubtractDateFromDuration") ELSE Add(res, d)
  ELSE res

\* lines 148-153: the new accumulator, or the check that fails
ApplyDatetime(res, o, d) ==
  IF IsDatetime(res)
    THEN IF o # Str("-") THEN Raise("CannotAddTwoDates") ELSE Sub(res, d)
  ELSE IF IsTimedelta(res)
    THEN IF o # Str("+") THEN Raise("CannotSubtractDateFromDuration") ELSE Add(res, d)
  ELSE res

\* lines 133, 142-155: parse_duration returned a value that is false
DatetimeOperand ==
  /\ pc = "loop" /\ i <= Len(tokens) /\ ~IsOperator(tokens[i])
  /\ LET d == parse_duration(tokens[i])
     IN /\ ~IsRaise(d) /\ ~Truthy(d)
        /\ token' = tokens[i]
        /\ dur' = d
  /\ \E adv \in 0..(MaxTicks - ticks) :
        /\ adv > 0 => ReadsClock(tokens[i])
        /\ ticks' = ticks + adv
        /\ clock' = Datetime(clock.ord, clock.sec + adv)
  /\ dt' = parse_datetime_safe(tokens[i], clock')
  /\ IF ~Truthy(dt') THEN Fail("UnparseableToken") /\ UNCHANGED <<result, op, i>>
     ELSE IF IsNone(result)
       THEN result' = dt' /\ i' = i + 1 /\ UNCHANGED <<op, raised, pc>>
     ELSE IF ~Truthy(op) THEN Fail("MissingOperator") /\ UNCHANGED <<result, op, i>>
     ELSE LET r == ApplyDatetime(result, op, dt')
          IN IF IsRaise(r) THEN Fail(r.kind) /\ UNCHANGED <<result, op, i>>
             ELSE /\ result' = r
                  /\ op' = None
                  /\ i' = i + 1
                  /\ UNCHANGED <<raised, pc>>
  /\ UNCHANGED <<expr, tokens, out, arg, ret>>

\* EndCheck with its two checks in the other order
EndCheckOperandsFirst(o, res) ==
  IF ~Truthy(res) THEN "NoOperandsFound"
  ELSE IF ~IsNone(o) THEN "TrailingOperator"
  ELSE ""

\* EndCheck without the check of the pending operator
EndCheckNoTrailing(o, res) ==
  IF ~Truthy(res) THEN "NoOperandsFound" ELSE ""

\* lines 157-158: the check that fails after the loop, "" for none
EndCheck(o, res) ==
  IF ~IsNone(o) THEN "TrailingOperator"
  ELSE IF ~Truthy(res) THEN "NoOperandsFound"
  ELSE ""

\* lines 157-159
EndOfTokens ==
  /\ pc = "loop" /\ i > Len(tokens)
  /\ IF EndCheck(op, result) # "" THEN Fail(EndCheck(op, result))
     ELSE pc' = "returned" /\ UNCHANGED raised
  /\ UNCHANGED <<expr, tokens, i, token, dur, dt, result, op, out, clock, ticks, arg, ret>>

\* lines 221-227: process_expression formats what evaluate_expression returned
FormatAnswer ==
  /\ pc = "returned"
  /\ out' = IF IsDatetime(result) THEN format_datetime(result) ELSE format_timedelta(result)
  /\ pc' = "formatted"
  /\ UNCHANGED <<expr, tokens, i, token, dur, dt, result, op, raised, clock, ticks, arg, ret>>

Next ==
  \/ SplitTokens
  \/ OperatorToken
  \/ DurationOperand
  \/ DatetimeOperand
  \/ EndOfTokens
  \/ FormatAnswer

Spec == Init /\ [][Next]_vars

(***************************************************************************)
(* parse_duration called on its own, on the duration strings.              *)
(***************************************************************************)
DurationStrings == OnePairStrings \cup TwoPairStrings

InitDur ==
  /\ arg \in DurationStrings
  /\ ret = None
  /\ pc = "call"
  /\ expr = <<>>
  /\ Idle

CallParseDuration ==
  /\ pc = "call"
  /\ ret' = parse_duration(arg)
  /\ pc' = "return"
  /\ UNCHANGED <<expr, tokens, i, token, dur, dt, result, op, raised, out, clock, ticks, arg>>

SpecDur == InitDur /\ [][CallParseDuration]_vars

(***************************************************************************)
(* format_timedelta called on its own, on durations of whole seconds.      *)
(***************************************************************************)
SampleSeconds == {0, 1, 59, 60, 61, 3599, 3600, 3661, 7200, 43200, 82800, 86399}
SampleDurations ==
  { Timedelta(d, 0, 0, sec) : d \in (-MaxDays)..MaxDays, sec \in SampleSeconds }

InitFmt ==
  /\ arg \in SampleDurations
  /\ ret = None
  /\ pc = "call"
  /\ expr = <<>>
  /\ Idle

CallFormatTimedelta ==
  /\ pc = "call"
  /\ ret' = format_timedelta(arg)
  /\ pc' = "return"
  /\ UNCHANGED <<expr, tokens, i, token, dur, dt, result, op, raised, out, clock, ticks, arg>>

SpecFmt == InitFmt /\ [][CallFormatTimedelta]_vars

(***************************************************************************)
(* The properties.                                                         *)
(***************************************************************************)
Ended == pc \in {"raised", "returned", "formatted"}
Returned == pc \in {"returned", "formatted"}

\* one iteration of the for loop, or the code after it, has run
StepTaken == pc = "loop" /\ (pc' # "loop" \/ i' # i)

\* an iteration has applied an operand to an accumulator that was set
OperandApplied ==
  /\ pc = "loop" /\ pc' = "loop" /\ i' = i + 1
  /\ ~IsOperator(tokens[i])
  /\ ~IsNone(result)

\* the operand an iteration has just classified
Operand == IF Truthy(dur) THEN dur ELSE dt

Kind(x) == IF IsTimedelta(x) THEN "Duration" ELSE IF IsDatetime(x) THEN "Instant" ELSE "None"

\* the type rule of the data model
TypeRule(acc, o, operand) ==
  CASE acc = "Duration" /\ operand = "Duration" -> "Duration"
    [] acc = "Instant" /\ operand = "Duration" -> "Instant"
    [] acc = "Instant" /\ operand = "Instant" /\ o = "-" -> "Duration"
    [] acc = "Duration" /\ operand = "Instant" /\ o = "+" -> "Instant"
    [] OTHER -> "Error"

\* the kind of an operand token: a Duration when the Duration Parser yields a
\* duration that the evaluator accepts, an Instant otherwise
TokenKind(tok) == IF Truthy(parse_duration(tok)) THEN "Duration" ELSE "Instant"

\* the rule folded left to right over operand (operator operand)*
RECURSIVE FoldKinds(_, _)
FoldKinds(acc, toks) ==
  IF Len(toks) < 2 THEN acc
  ELSE FoldKinds(TypeRule(acc, toks[1][1].w, TokenKind(toks[2])), SubSeq(toks, 3, Len(toks)))

\* C1: every operand applied without error leaves an accumulator of the kind
\* the type rule gives for the accumulator, the pending operator and the
\* operand; and the value returned has the kind of the rule folded over the
\* tokens.
C1_TypeRule ==
  /\ [][OperandApplied =>
          Kind(result') = TypeRule(Kind(result), op.w, Kind(Operand'))]_vars
  /\ [](Returned => Kind(result) = FoldKinds(TokenKind(tokens[1]), Tail(tokens)))

\* an Instant minus an Instant has been applied and left a Duration
C1_Witness ==
  /\ pc = "loop" /\ i = 4 /\ IsDatetime(dt) /\ ~Truthy(dur)
  /\ IsTimedelta(result) /\ IsOperator(tokens[2]) /\ TokenKind(tokens[1]) = "Instant"

\* an iteration has handed its token to the Datetime Parser and got an instant
InstantOperand ==
  /\ StepTaken /\ i <= Len(tokens) /\ ~IsOperator(tokens[i])
  /\ ~IsRaise(parse_duration(tokens[i])) /\ ~Truthy(parse_duration(tokens[i]))
  /\ IsDatetime(dt')

\* seconds from the instant b to the instant a
SecondsBetween(a, b) == (a.ord - b.ord) * DaySeconds + (a.sec - b.sec)

\* C3: an Instant operand meets a set accumulator: on an Instant accumulator
\* '-' leaves the difference, a Duration, and '+' fails with
\* CannotAddTwoDates; on a Duration accumulator '+' leaves the instant
\* shifted by the duration and '-' fails with
\* CannotSubtractDateFromDuration; a failure ends the run without a result.
C3_InstantOperand ==
  /\ [][InstantOperand /\ ~IsNone(result) /\ ~IsNone(op) =>
          CASE IsDatetime(result) /\ op.w = "-" ->
                 /\ pc' = "loop" /\ IsTimedelta(result')
                 /\ TotalSeconds(result') = SecondsBetween(result, dt')
            [] IsDatetime(result) /\ op.w = "+" ->
                 pc' = "raised" /\ raised' = "CannotAddTwoDates" /\ result' = result
            [] IsTimedelta(result) /\ op.w = "+" ->
                 /\ pc' = "loop" /\ IsDatetime(result')
                 /\ SecondsBetween(result', dt') = TotalSeconds(result)
            [] IsTimedelta(result) /\ op.w = "-" ->
                 /\ pc' = "raised" /\ raised' = "CannotSubtractDateFromDuration"
                 /\ result' = result]_vars
  /\ [][pc = "raised" => pc' = "raised"]_vars

\* a duration plus a date has left the date shifted by the duration
C3_Witness ==
  /\ pc = "loop" /\ i = 4 /\ IsDatetime(result) /\ IsDatetime(dt) /\ ~Truthy(dur)
  /\ TokenKind(tokens[1]) = "Duration" /\ tokens[2] = <<Pn("+")>>
  /\ SecondsBetween(result, dt) = DaySeconds

\* C4: an operator token that meets a pending operator fails with
\* ConsecutiveOperators; the end of the tokens with a pending operator fails
\* with TrailingOperator; no tokens at all fail with NoOperandsFound or
\* InvalidExpression; none of them returns a result.
C4_OperatorErrors ==
  /\ [][StepTaken =>
          /\ (i <= Len(tokens) /\ IsOperator(tokens[i]) /\ ~IsNone(op)
                => pc' = "raised" /\ raised' = "ConsecutiveOperators")
          /\ (i > Len(tokens) /\ ~IsNone(op)
                => pc' = "raised" /\ raised' = "TrailingOperator")
          /\ (i > Len(tokens) /\ tokens = <<>>
                => pc' = "raised" /\ raised' \in {"NoOperandsFound", "InvalidExpression"})]_vars
  /\ [](Returned => raised = "")
  /\ [][pc = "raised" => pc' = "raised" /\ raised' = raised]_vars
  /\ [](expr = JoinAll(<<Pair(1, "d"), Plus, Plus, Pair(0, "d")>>) /\ Ended
          => raised = "ConsecutiveOperators")
  /\ [](expr = JoinAll(<<Pair(1, "d"), Plus>>) /\ Ended => raised = "TrailingOperator")
  /\ [](expr = <<>> /\ Ended => raised = "NoOperandsFound")

\* an operator alone has ended as a trailing operator
C4_Witness ==
  /\ pc = "raised" /\ raised = "TrailingOperator"
  /\ Len(tokens) = 1 /\ IsOperator(tokens[1])

\* operand (operator operand)*
WellShaped(toks) ==
  /\ Len(toks) % 2 = 1
  /\ \A j \in 1..Len(toks) : IsOperator(toks[j]) <=> j % 2 = 0

\* C10: a result is returned only for tokens of the shape
\* operand (operator operand)*; for every other token sequence the code after
\* the loop, if it is reached, raises; and an operand is applied to a set
\* accumulator only under a pending operator, which the application clears.
C10_Shape ==
  /\ [](Returned => WellShaped(tokens))
  /\ [][pc = "loop" /\ i > Len(tokens) /\ ~WellShaped(tokens) /\ pc' # pc
          => pc' = "raised"]_vars
  /\ [][OperandApplied => ~IsNone(op) /\ IsNone(op')]_vars

\* three operands joined by two operators have returned a result
C10_Witness == pc = "returned" /\ Len(tokens) = 5 /\ WellShaped(tokens)

\* the unit aliases as the design lists them
WeekAliases == {"w", "week", "weeks"}
DayAliases == {"d", "day", "days"}
HourAliases == {"h", "hr", "hour", "hours"}
MinuteAliases == {"m", "min", "minute", "minutes"}
SecondAliases == {"s", "sec", "second", "seconds"}

\* the duration "{n}{U}" stands for
PairDuration(n, u) ==
  LET l == Lower(u)
  IN Timedelta(IF l \in WeekAliases THEN 7 * n ELSE IF l \in DayAliases THEN n ELSE 0,
               IF l \in HourAliases THEN n ELSE 0,
               IF l \in MinuteAliases THEN n ELSE 0,
               IF l \in SecondAliases THEN n ELSE 0)

\* C7: parse_duration on "{n}{U}", U a recognized alias in any case, yields
\* the duration of n of U's unit (7*n days for a week alias) and nothing
\* else; on two pairs it yields the sum of the two.
C7_ParseDuration ==
  pc = "return" =>
    /\ \A n \in 0..MaxValue, u \in Aliases \cup MixedCase :
         arg \in {Pair(n, u), SpacedPair(n, u)} => ret = PairDuration(n, u)
    /\ \A n1 \in 0..MaxValue, n2 \in 0..MaxValue, u1 \in Aliases, u2 \in Aliases :
         arg = Join(Pair(n1, u1), Pair(n2, u2))
           => ret = Add(PairDuration(n1, u1), PairDuration(n2, u2))

\* "2W" has been parsed into fourteen days
C7_Witness == pc = "return" /\ arg = Pair(2, "W") /\ ret = Timedelta(14, 0, 0, 0)

\* C2: an expression whose value is a zero duration returns that zero
\* duration, which is formatted as "0 seconds"; it does not end in an error.
C2_ZeroDuration ==
  Ended /\ i > Len(tokens) /\ IsNone(op) /\ result = Timedelta(0, 0, 0, 0)
    => /\ raised = ""
       /\ pc = "formatted" => out = [sign |-> "", parts |-> <<[n |-> 0, unit |-> "seconds"]>>]

\* C5: "A + D - D" returns A, for an Instant A and a duration token D with
\* values n >= 0.
C5_RoundTrip ==
  \A a \in {Render(1, 1, f) : f \in SampleDates} \cup {<<Lt("today")>>},
     d \in {Pair(n, "d") : n \in 0..1} :
       expr = JoinAll(<<a, Plus, d, Minus, d>>) /\ Ended
         => raised = "" /\ result = parse_datetime_safe(a, clock)

UnitSeconds(unit) ==
  CASE unit \in {"day", "days"} -> DaySeconds
    [] unit \in {"hour", "hours"} -> 3600
    [] unit \in {"minute", "minutes"} -> 60
    [] unit \in {"second", "seconds"} -> 1
RECURSIVE PartsTotal(_)
PartsTotal(parts) ==
  IF parts = <<>> THEN 0
  ELSE Head(parts).n * UnitSeconds(Head(parts).unit) + PartsTotal(Tail(parts))

\* C6: format_timedelta of a duration of T whole seconds lists unsigned
\* components that add up to |T|, hours below 24, minutes and seconds below
\* 60, only the non-zero ones, under a leading '-' exactly when T < 0.
C6_FormatTimedelta ==
  pc = "return" =>
    LET T == TotalSeconds(arg)
    IN /\ PartsTotal(ret.parts) = Abs(T)
       /\ ret.sign = "-" <=> T < 0
       /\ \A j \in 1..Len(ret.parts) :
            /\ ret.parts[j].n >= 0
            /\ ret.parts[j].n = 0 => T = 0
            /\ ret.parts[j].unit \in {"hour", "hours"} => ret.parts[j].n < 24
            /\ ret.parts[j].unit \in {"minute", "minutes", "second", "seconds"}
                 => ret.parts[j].n < 60

\* C8: an operand token for which the Duration Parser yields a duration, a
\* zero duration included, is used as a Duration operand and never fails
\* with UnparseableToken.
C8_DurationClassified ==
  [][StepTaken /\ i <= Len(tokens) /\ ~IsOperator(tokens[i])
       /\ IsTimedelta(parse_duration(tokens[i]))
       => /\ raised' # "UnparseableToken"
          /\ pc' = "loop" => dur' = parse_duration(tokens[i]) /\ Operand' = dur']_vars

\* C9: an operand token written in one of the 35 formats is used as the
\* Instant that parse_datetime_safe returns for it, and fails neither with
\* UnsupportedUnit nor with UnparseableToken.
C9_DateClassified ==
  [][StepTaken /\ i <= Len(tokens) /\ tokens[i] \in DateStrings
       => /\ raised' \notin {"UnsupportedUnit", "UnparseableToken"}
          /\ IsDatetime(parse_datetime_safe(tokens[i], clock'))
          /\ pc' = "loop" => Operand' = parse_datetime_safe(tokens[i], clock')]_vars

====
